---- MODULE Spec2Model ----
(***************************************************************************)
(* Model of coinbase_trader.py: the bounded price history, the moving      *)
(* average crossover analysis, the balance-gated order placement and the   *)
(* trading cycle that composes them.                                       *)
(*                                                                         *)
(* Units.  Prices are whole EUR per ETH.  EUR balances are whole EUR, ETH  *)
(* balances are thousandths of an ETH.  TRADE_PERCENTAGE (0.9) is kept as  *)
(* 9 tenths, so an order amount is kept in tenths of the balance unit:     *)
(* amount = available * TRADE_PERCENTAGE, exactly, with PERCENT_UNIT = 10. *)
(* A moving average sum/n is kept as the exact fraction <<sum, n>>; two    *)
(* averages are compared by cross multiplication.                          *)
(***************************************************************************)
EXTENDS Integers, Sequences, FiniteSets, TLC

\* ---- program constants ------------------------------------------------
ETH_SYMBOL == "ETH-EUR"
BTC_SYMBOL == "BTC-EUR"
MOVING_AVG_SHORT == 12
MOVING_AVG_LONG == 26
MIN_EUR_TRADE == 10
MIN_ETH_TRADE == 10
TRADE_PERCENTAGE == 9
PERCENT_UNIT == 10
NUM_PRICE_POINTS == 10
HISTORY_MARGIN == 5

\* ---- bounds of the model ----------------------------------------------
\* Number of successful get_current_prices calls of a run.
MaxFetches == 34
\* The market keeps its trend for TrendSpan consecutive samples.
TrendSpan == 11
\* First ETH-EUR price of a run; larger than MaxFetches, so prices stay positive.
StartPrice == 50
\* Offset of the BTC-EUR price.
BtcBase == 500

Pairs == {ETH_SYMBOL, BTC_SYMBOL}
Trends == {-1, 0, 1}
Platforms == {"Windows", "Linux"}

\* Account snapshots the exchange may answer get_accounts with: the available
\* amount is at the trade minimum or at twice the minimum, and as much again
\* is on hold.
EurAvailable == {MIN_EUR_TRADE, 2 * MIN_EUR_TRADE}
EthAvailable == {MIN_ETH_TRADE, 2 * MIN_ETH_TRADE}
Accounts ==
  { [EUR |-> [balance |-> e + e, available |-> e],
     ETH |-> [balance |-> x + x, available |-> x]] :
       e \in EurAvailable, x \in EthAvailable }

VARIABLES
  platform,           \* platform.system()
  display,            \* the pygame window: "none", "open" or "closed" (pygame.quit())
  creds,              \* all([API_KEY, API_SECRET, API_PASSPHRASE])
  pc,                 \* position of main / run_trading_cycle
  price_history,      \* self.price_history: pair -> sequence of <<timestamp, price>>
  total_profit_loss,  \* self.total_profit_loss
  now,                \* the clock read by datetime.now(): one tick per fetch
  market,             \* the exchange's ETH-EUR ticker: [price, trend]
  recorded,           \* every sample ever appended, per pair (history of the run)
  current_prices,     \* run_trading_cycle's local current_prices (<<>> when unset)
  balances,           \* run_trading_cycle's local balances (<<>> when unset)
  eth_prices,         \* run_trading_cycle's local eth_prices
  analysis,           \* run_trading_cycle's local analysis (<<>> is None)
  trade,              \* the execute_trade call of this cycle (<<>> when none)
  orders,             \* place_market_order requests of this cycle
  gate,               \* the can_trade call of this cycle (<<>> when none)
  err,                \* exception caught at line 364 in this cycle ("" when none)
  reported            \* snapshots delivered by the reporting step in this cycle

vars == <<platform, display, creds, pc, price_history, total_profit_loss, now, market,
          recorded, current_prices, balances, eth_prices, analysis, trade,
          orders, gate, err, reported>>

\* ---- helpers ----------------------------------------------------------
\* Python's s[-n:] for n > 0.
LastN(s, n) == IF Len(s) <= n THEN s ELSE SubSeq(s, Len(s) - n + 1, Len(s))

RECURSIVE Sum(_)
Sum(s) == IF s = <<>> THEN 0 ELSE Head(s) + Sum(Tail(s))

Max(a, b) == IF a >= b THEN a ELSE b

\* [price for _, price in samples]
Prices(samples) == [i \in 1..Len(samples) |-> samples[i][2]]

\* BTC-EUR ticker at clock value t: not used by the strategy.
BtcPrice(t) == BtcBase + (t % 2)

\* ---- get_current_prices ------------------------------------------------
max_history == Max(MOVING_AVG_SHORT, MOVING_AVG_LONG) + HISTORY_MARGIN

\* Variant of Truncate: the cut keeps one sample too many.
TruncateLate(h) ==
  IF Len(h[ETH_SYMBOL]) > max_history + 1
  THEN [p \in Pairs |-> LastN(h[p], max_history + 1)]
  ELSE h

\* Variant of Truncate: the slice [:max_history] instead of [-max_history:].
TruncateOldest(h) ==
  IF Len(h[ETH_SYMBOL]) > max_history
  THEN [p \in Pairs |-> SubSeq(h[p], 1, max_history)]
  ELSE h

\* Variant of Truncate: the slice keeps the short window only.
TruncateToShort(h) ==
  IF Len(h[ETH_SYMBOL]) > max_history
  THEN [p \in Pairs |-> LastN(h[p], MOVING_AVG_SHORT)]
  ELSE h

\* Lines 203-205: the cut is decided on the ETH-EUR length for both pairs.
Truncate(h) ==
  IF Len(h[ETH_SYMBOL]) > max_history
  THEN [p \in Pairs |-> LastN(h[p], max_history)]
  ELSE h

\* Lines 197-205: the history after appending one sample per pair.
Record(h, t, eth, btc) ==
  Truncate([h EXCEPT ![ETH_SYMBOL] = Append(@, <<t, eth>>),
                     ![BTC_SYMBOL] = Append(@, <<t, btc>>)])

\* The ticker answers of one successful call: the market moves by its trend,
\* which may change every TrendSpan samples.
Tickers ==
  { [price |-> market.price + t, trend |-> t] :
      t \in {u \in Trends : u = market.trend \/ now % TrendSpan = 0} }

CanFetch == now < MaxFetches

\* A successful get_current_prices call with ticker answer m.
GetCurrentPrices(m) ==
  /\ now' = now + 1
  /\ market' = m
  /\ price_history' = Record(price_history, now + 1, m.price, BtcPrice(now + 1))
  /\ recorded' = [recorded EXCEPT ![ETH_SYMBOL] = Append(@, <<now + 1, m.price>>),
                                  ![BTC_SYMBOL] = Append(@, <<now + 1, BtcPrice(now + 1)>>)]

\* ---- analyze_market -----------------------------------------------------
\* Variant of Signal: the window sums are compared without dividing them.
SignalOfSums(short_ma, long_ma) ==
  IF short_ma[1] > long_ma[1] THEN "BUY"
  ELSE IF short_ma[1] < long_ma[1] THEN "SELL"
  ELSE "HOLD"

\* Lines 231-236.
Signal(short_ma, long_ma) ==
  IF short_ma[1] * long_ma[2] > long_ma[1] * short_ma[2] THEN "BUY"
  ELSE IF short_ma[1] * long_ma[2] < long_ma[1] * short_ma[2] THEN "SELL"
  ELSE "HOLD"

\* Variant of EnoughHistory: <= instead of < at line 219.
EnoughHistoryStrict(h) == ~(Len(h[ETH_SYMBOL]) <= MOVING_AVG_LONG)

\* Line 219.
EnoughHistory(h) == ~(Len(h[ETH_SYMBOL]) < MOVING_AVG_LONG)

\* Variant of AnalyzeMarket: the leading windows [:n] instead of the trailing [-n:].
AnalyzeMarketLeading(h) ==
  IF ~EnoughHistory(h) THEN <<>>
  ELSE LET prices == Prices(h[ETH_SYMBOL])
           short_ma == <<Sum(SubSeq(prices, 1, MOVING_AVG_SHORT)), MOVING_AVG_SHORT>>
           long_ma == <<Sum(SubSeq(prices, 1, MOVING_AVG_LONG)), MOVING_AVG_LONG>>
       IN << [signal |-> Signal(short_ma, long_ma),
              short_ma |-> short_ma,
              long_ma |-> long_ma,
              current_price |-> prices[Len(prices)]] >>

\* Variant of HistoryAfterAnalysis: the window is taken out of the stored list
\* (pop(0)) instead of being copied.
HistoryAfterAnalysisPopped(h) ==
  [h EXCEPT ![ETH_SYMBOL] = IF @ = <<>> THEN @ ELSE Tail(@)]

\* Lines 224-228: the comprehension and the slices copy; the stored history
\* is only read.
HistoryAfterAnalysis(h) == h

\* Lines 219-244: <<>> is None.
AnalyzeMarket(h) ==
  IF ~EnoughHistory(h) THEN <<>>
  ELSE LET prices == Prices(h[ETH_SYMBOL])
           short_ma == <<Sum(LastN(prices, MOVING_AVG_SHORT)), MOVING_AVG_SHORT>>
           long_ma == <<Sum(LastN(prices, MOVING_AVG_LONG)), MOVING_AVG_LONG>>
       IN << [signal |-> Signal(short_ma, long_ma),
              short_ma |-> short_ma,
              long_ma |-> long_ma,
              current_price |-> prices[Len(prices)]] >>

\* ---- can_trade / execute_trade ------------------------------------------
\* Variant of CanTrade: and instead of or at line 312.
CanTradeBoth(b) ==
  b.EUR.available > MIN_EUR_TRADE /\ b.ETH.available > MIN_ETH_TRADE

\* Line 312.
CanTrade(b) ==
  b.EUR.available > MIN_EUR_TRADE \/ b.ETH.available > MIN_ETH_TRADE

\* Variant of BuyGuard: >= instead of > at line 258.
BuyGuardLoose(signal, b) == signal = "BUY" /\ b.EUR.available >= MIN_EUR_TRADE

\* Line 258.
BuyGuard(signal, b) == signal = "BUY" /\ b.EUR.available > MIN_EUR_TRADE
\* Line 278.
SellGuard(signal, b) == signal = "SELL" /\ b.ETH.available > MIN_ETH_TRADE
\* Variant of EurToUse: the total balance instead of the available one.
EurToUseOfBalance(b) == b.EUR.balance * TRADE_PERCENTAGE

\* Line 260, in tenths of a EUR.
EurToUse(b) == b.EUR.available * TRADE_PERCENTAGE
\* Line 280, in tenths of a thousandth of an ETH.
EthToSell(b) == b.ETH.available * TRADE_PERCENTAGE

Order(side, amount, signal, b, ok) ==
  [side |-> side, amount |-> amount, signal |-> signal,
   eur |-> b.EUR.available, eth |-> b.ETH.available, ok |-> ok]

Gate(b) ==
  << [eur |-> b.EUR.available, eth |-> b.ETH.available, result |-> CanTrade(b)] >>

Trade(signal, b, placed, result) ==
  << [signal |-> signal, eur |-> b.EUR.available, eth |-> b.ETH.available,
      placed |-> placed, result |-> result] >>

\* ---- main and run_trading_cycle ------------------------------------------
Init ==
  /\ platform \in Platforms
  /\ display = "none"
  /\ creds \in BOOLEAN
  /\ pc = "main"
  /\ price_history = [p \in Pairs |-> <<>>]
  /\ recorded = [p \in Pairs |-> <<>>]
  /\ total_profit_loss = 0
  /\ now = 0
  /\ market = [price |-> StartPrice, trend |-> 0]
  /\ current_prices = <<>>
  /\ balances = <<>>
  /\ eth_prices = <<>>
  /\ analysis = <<>>
  /\ trade = <<>>
  /\ orders = <<>>
  /\ gate = <<>>
  /\ err = ""
  /\ reported = 0

engine == <<price_history, total_profit_loss, now, market, recorded>>
locals == <<current_prices, balances, eth_prices, analysis>>
cycle == <<trade, orders, gate, err, reported>>

\* Variant of Construct: line 147 does not check the credentials.
ConstructUnchecked ==
  /\ pc = "main"
  /\ display' = IF platform = "Windows" THEN "open" ELSE "none"
  /\ pc' = "fetch"
  /\ UNCHANGED <<platform, creds, engine, locals, cycle>>

\* Lines 373-382: the window is opened first (line 376), then CoinbaseTrader()
\* raises ValueError without credentials (lines 147-149), outside main's try.
Construct ==
  /\ pc = "main"
  /\ display' = IF platform = "Windows" THEN "open" ELSE "none"
  /\ pc' = IF creds THEN "fetch" ELSE "crashed"
  /\ UNCHANGED <<platform, creds, engine, locals, cycle>>

\* The exception handler of line 364: the cycle is over.
Caught(e) ==
  /\ err' = e
  /\ pc' = "events"

\* Line 321: the cycle's get_current_prices.
CycleFetch ==
  /\ pc = "fetch"
  /\ balances' = <<>>
  /\ eth_prices' = <<>>
  /\ analysis' = <<>>
  /\ trade' = <<>>
  /\ orders' = <<>>
  /\ gate' = <<>>
  /\ reported' = 0
  /\ \/ /\ CanFetch
        /\ \E m \in Tickers :
             /\ GetCurrentPrices(m)
             /\ current_prices' = << [ETH |-> m.price, BTC |-> BtcPrice(now + 1)] >>
        /\ err' = ""
        /\ pc' = "balances"
        /\ UNCHANGED total_profit_loss
     \/ /\ Caught("price")
        /\ current_prices' = <<>>
        /\ UNCHANGED engine
  /\ UNCHANGED <<platform, display, creds>>

\* Lines 324-326.
CycleBalances ==
  /\ pc = "balances"
  /\ \/ /\ \E a \in Accounts : balances' = <<a>>
        /\ pc' = "window"
        /\ UNCHANGED err
     \/ /\ Caught("balance")
        /\ UNCHANGED balances
  /\ UNCHANGED <<platform, display, creds, engine, current_prices, eth_prices, analysis,
                 trade, orders, gate, reported>>

\* Lines 329-333: NUM_PRICE_POINTS is bound only on Windows (line 51).
CycleWindow ==
  /\ pc = "window"
  /\ IF platform = "Windows"
     THEN /\ eth_prices' = Prices(LastN(price_history[ETH_SYMBOL], NUM_PRICE_POINTS))
          /\ pc' = "analyze"
          /\ UNCHANGED err
     ELSE /\ Caught("NameError")
          /\ UNCHANGED eth_prices
  /\ UNCHANGED <<platform, display, creds, engine, current_prices, balances, analysis,
                 trade, orders, gate, reported>>

\* Line 336.
CycleAnalyze ==
  /\ pc = "analyze"
  /\ analysis' = AnalyzeMarket(price_history)
  /\ price_history' = HistoryAfterAnalysis(price_history)
  /\ pc' = "gate"
  /\ UNCHANGED <<platform, display, creds, total_profit_loss, now, market, recorded,
                 current_prices, balances, eth_prices, cycle>>

\* Line 339: can_trade is called only when analysis is not None.
CycleGate ==
  /\ pc = "gate"
  /\ IF analysis = <<>>
     THEN /\ pc' = "report"
          /\ UNCHANGED <<gate, err>>
     ELSE \/ /\ \E a \in Accounts :
                  /\ gate' = Gate(a)
                  /\ pc' = IF CanTrade(a) THEN "execute" ELSE "report"
             /\ UNCHANGED err
          \/ /\ Caught("balance")
             /\ UNCHANGED gate
  /\ UNCHANGED <<platform, display, creds, engine, locals, trade, orders, reported>>

\* Variant of Place: a failed placement is tried a second time.
PlaceRetry(side, amount, signal, b, ok) ==
  IF ok THEN << Order(side, amount, signal, b, ok) >>
  ELSE << Order(side, amount, signal, b, FALSE), Order(side, amount, signal, b, FALSE) >>

\* The order requests of one placement attempt: place_market_order is called
\* once, whether it succeeds or raises (lines 264, 284).
Place(side, amount, signal, b, ok) == << Order(side, amount, signal, b, ok) >>

\* Line 293.
SellProfit(pl, b, price) == pl + EthToSell(b) * price

\* Variant of ProfitAfterFailure: the amount is booked before the order is known
\* to be placed.
ProfitAfterFailureBooked(pl, amount) == pl - amount

\* Lines 275-276, 295-296: a failed attempt is logged, nothing else.
ProfitAfterFailure(pl, amount) == pl

\* Line 340: execute_trade(analysis['signal']).
CycleExecute ==
  /\ pc = "execute"
  /\ LET signal == analysis[1].signal IN
     \/ /\ Caught("balance")                        \* line 256 raises
        /\ UNCHANGED <<engine, trade, orders>>
     \/ \E b \in Accounts :
          /\ ~BuyGuard(signal, b) /\ ~SellGuard(signal, b)   \* lines 298-300
          /\ trade' = Trade(signal, b, FALSE, "None")
          /\ pc' = "report"
          /\ UNCHANGED <<engine, orders, err>>
     \/ \E b \in Accounts, ok \in BOOLEAN :
          /\ BuyGuard(signal, b)                      \* lines 258-276
          /\ orders' = orders \o Place("buy", EurToUse(b), signal, b, ok)
          /\ trade' = Trade(signal, b, ok, IF ok THEN "order" ELSE "None")
          /\ total_profit_loss' =
               IF ok THEN total_profit_loss
               ELSE ProfitAfterFailure(total_profit_loss, EurToUse(b))
          /\ pc' = "report"
          /\ UNCHANGED <<price_history, now, market, recorded, err>>
     \/ \E b \in Accounts :
          /\ ~BuyGuard(signal, b) /\ SellGuard(signal, b)    \* lines 278-296
          /\ \/ /\ orders' = orders \o Place("sell", EthToSell(b), signal, b, FALSE)
                /\ trade' = Trade(signal, b, FALSE, "None")
                /\ total_profit_loss' =
                     ProfitAfterFailure(total_profit_loss, EthToSell(b))
                /\ UNCHANGED <<price_history, now, market, recorded>>
             \/ /\ orders' = orders \o Place("sell", EthToSell(b), signal, b, TRUE)
                /\ \/ /\ CanFetch                    \* line 290 succeeds
                      /\ \E m \in Tickers :
                           /\ GetCurrentPrices(m)
                           /\ total_profit_loss' =
                                SellProfit(total_profit_loss, b, m.price)
                      /\ trade' = Trade(signal, b, TRUE, "order")
                   \/ /\ trade' = Trade(signal, b, TRUE, "None")   \* line 290 raises
                      /\ UNCHANGED engine
          /\ pc' = "report"
          /\ UNCHANGED err
  /\ UNCHANGED <<platform, display, creds, locals, gate, reported>>

\* Lines 342-362: update_display draws on the window, which raises
\* pygame.error once pygame.quit() has run (line 129); both branches read
\* analysis['signal'], a TypeError on None (lines 133, 361), before the
\* snapshot is complete (line 136, line 362).
CycleReport ==
  /\ pc = "report"
  /\ IF platform = "Windows" /\ display = "closed"
     THEN /\ Caught("pygame.error")
          /\ UNCHANGED reported
     ELSE IF analysis = <<>>
     THEN /\ Caught("TypeError")
          /\ UNCHANGED reported
     ELSE /\ reported' = reported + 1
          /\ pc' = "events"
          /\ UNCHANGED err
  /\ UNCHANGED <<platform, display, creds, engine, locals, trade, orders, gate>>

\* run_trading_cycle has returned: its frame is gone.
Returned ==
  /\ current_prices' = <<>>
  /\ balances' = <<>>
  /\ eth_prices' = <<>>
  /\ analysis' = <<>>
  /\ trade' = <<>>
  /\ orders' = <<>>
  /\ gate' = <<>>
  /\ err' = ""
  /\ reported' = 0

\* Lines 387-390: the display events after the cycle.  Up to here the state
\* still shows what the cycle that just returned has done.  A QUIT event
\* closes the window (line 390) and the loop goes on; once the window is
\* closed pygame.event.get() raises pygame.error, which line 392 catches
\* outside the loop: main logs and returns.
MainEvents ==
  /\ pc = "events"
  /\ Returned
  /\ IF platform # "Windows"
     THEN /\ pc' = "sleep"
          /\ UNCHANGED display
     ELSE IF display = "closed"
     THEN /\ pc' = "exited"
          /\ UNCHANGED display
     ELSE /\ pc' = "sleep"
          /\ display' \in {"open", "closed"}
  /\ UNCHANGED <<platform, creds, engine>>

\* Line 391.
MainSleep ==
  /\ pc = "sleep"
  /\ pc' = "fetch"
  /\ UNCHANGED <<platform, display, creds, engine, locals, cycle>>

InLoop == pc \in {"fetch", "balances", "window", "analyze", "gate", "execute",
                  "report", "events", "sleep"}

\* Lines 395-397: KeyboardInterrupt ends main.
Stop ==
  /\ InLoop
  /\ pc' = "stopped"
  /\ Returned
  /\ UNCHANGED <<platform, display, creds, engine>>

Next ==
  \/ Construct
  \/ CycleFetch
  \/ CycleBalances
  \/ CycleWindow
  \/ CycleAnalyze
  \/ CycleGate
  \/ CycleExecute
  \/ CycleReport
  \/ MainEvents
  \/ MainSleep
  \/ Stop

Spec == Init /\ [][Next]_vars

\* ---- analyze_market on its own -------------------------------------------
\* The histories analyze_market is applied to: n samples with consecutive
\* timestamps whose price moves by slope a for the first k samples and by
\* slope b afterwards.
ShapedPrice(i, k, a, b) ==
  StartPrice + a * (IF i <= k THEN i ELSE k) + b * (IF i <= k THEN 0 ELSE i - k)

ShapedHistory(n, k, a, b) ==
  [p \in Pairs |->
     [i \in 1..n |-> <<i, IF p = ETH_SYMBOL THEN ShapedPrice(i, k, a, b)
                                           ELSE BtcPrice(i)>>]]

\* A cycle on Windows that has fetched, read the balances and reached line 336.
InitAnalyze ==
  \E n \in 1..max_history, a \in Trends, b \in Trends :
    \E k \in 0..n :
      /\ platform = "Windows"
      /\ display = "open"
      /\ creds = TRUE
      /\ pc = "analyze"
      /\ price_history = ShapedHistory(n, k, a, b)
      /\ recorded = price_history
      /\ total_profit_loss = 0
      /\ now = n
      /\ market = [price |-> ShapedPrice(n, k, a, b), trend |-> IF k < n THEN b ELSE a]
      /\ current_prices = << [ETH |-> ShapedPrice(n, k, a, b), BTC |-> BtcPrice(n)] >>
      /\ balances = << CHOOSE acc \in Accounts : CanTrade(acc) >>
      /\ eth_prices = Prices(LastN(price_history[ETH_SYMBOL], NUM_PRICE_POINTS))
      /\ analysis = <<>>
      /\ trade = <<>>
      /\ orders = <<>>
      /\ gate = <<>>
      /\ err = ""
      /\ reported = 0

\* analyze_market called once more, on the history the first call left.
Reanalyze ==
  /\ pc = "gate"
  /\ analysis' = AnalyzeMarket(price_history)
  /\ price_history' = HistoryAfterAnalysis(price_history)
  /\ pc' = "again"
  /\ UNCHANGED <<platform, display, creds, total_profit_loss, now, market, recorded,
                 current_prices, balances, eth_prices, cycle>>

NextAnalyze == CycleAnalyze \/ Reanalyze

SpecAnalyze == InitAnalyze /\ [][NextAnalyze]_vars

\* ---- properties -----------------------------------------------------------
EthHistory == price_history[ETH_SYMBOL]
EthLen == Len(EthHistory)

\* The sum of the last n ETH-EUR prices of the history, by index.
RECURSIVE TrailingSum(_)
TrailingSum(n) ==
  IF n = 0 THEN 0 ELSE EthHistory[EthLen - n + 1][2] + TrailingSum(n - 1)

\* C1: after any number of get_current_prices calls, from the cycle or from
\* execute_trade, each pair's history holds at most
\* max(MOVING_AVG_SHORT, MOVING_AVG_LONG) + 5 samples.
C1_HistoryBounded ==
  \A p \in Pairs :
    Len(price_history[p]) <= Max(MOVING_AVG_SHORT, MOVING_AVG_LONG) + HISTORY_MARGIN

\* C1 witness: a history at the cap after samples have been evicted.
C1_Witness ==
  /\ \A p \in Pairs : Len(price_history[p]) = max_history
  /\ \A p \in Pairs : Len(recorded[p]) > max_history

\* C2: the samples retained for a pair are exactly the last min(n, max_history)
\* of the n samples recorded so far, in recording order.
C2_MostRecentInOrder ==
  \A p \in Pairs :
    LET n == Len(recorded[p])
        m == IF n < max_history THEN n ELSE max_history
    IN /\ Len(price_history[p]) = m
       /\ \A i \in 1..m : price_history[p][i] = recorded[p][n - m + i]

\* C2 witness: more than one sample has been evicted, and the oldest retained
\* sample is not the first one recorded.
C2_Witness ==
  /\ Len(recorded[ETH_SYMBOL]) > max_history + 1
  /\ price_history[ETH_SYMBOL][1] = recorded[ETH_SYMBOL][Len(recorded[ETH_SYMBOL]) - max_history + 1]
  /\ price_history[BTC_SYMBOL][1] # recorded[BTC_SYMBOL][1]

\* C3: analyze_market returns None iff the ETH-EUR history holds fewer than
\* MOVING_AVG_LONG samples; otherwise its signal is BUY, SELL or HOLD.
C3_NoneIffShort ==
  pc = "gate" =>
    /\ (analysis = <<>>) <=> (EthLen < MOVING_AVG_LONG)
    /\ analysis # <<>> => analysis[1].signal \in {"BUY", "SELL", "HOLD"}

\* C3 witness: a history of exactly MOVING_AVG_LONG samples has been analysed.
C3_Witness ==
  /\ pc = "gate"
  /\ EthLen = MOVING_AVG_LONG
  /\ analysis # <<>>

\* C4: with at least MOVING_AVG_LONG samples the signal is BUY iff the mean of
\* the last MOVING_AVG_SHORT prices exceeds the mean of the last
\* MOVING_AVG_LONG prices, SELL iff it is smaller, HOLD iff they are equal;
\* the returned current price is the last recorded price.
C4_SignalByMeans ==
  (pc = "gate" /\ EthLen >= MOVING_AVG_LONG) =>
    LET s == TrailingSum(MOVING_AVG_SHORT) * MOVING_AVG_LONG
        l == TrailingSum(MOVING_AVG_LONG) * MOVING_AVG_SHORT
    IN /\ analysis # <<>>
       /\ (analysis[1].signal = "BUY") <=> (s > l)
       /\ (analysis[1].signal = "SELL") <=> (s < l)
       /\ (analysis[1].signal = "HOLD") <=> (s = l)
       /\ analysis[1].current_price = EthHistory[EthLen][2]

\* C4 witness: a SELL on a history longer than the long window whose first
\* price is below its last one.
C4_Witness ==
  /\ pc = "gate"
  /\ EthLen > MOVING_AVG_LONG
  /\ analysis # <<>>
  /\ analysis[1].signal = "SELL"
  /\ EthHistory[1][2] < EthHistory[EthLen][2]

Ascending == \A i \in 1..(EthLen - 1) : EthHistory[i][2] < EthHistory[i + 1][2]
Descending == \A i \in 1..(EthLen - 1) : EthHistory[i][2] > EthHistory[i + 1][2]

\* C5: a history of at least MOVING_AVG_LONG samples with strictly ascending
\* prices gives BUY, one with strictly descending prices gives SELL.
C5_MonotoneHistories ==
  (pc = "gate" /\ EthLen >= MOVING_AVG_LONG) =>
    /\ Ascending => (analysis # <<>> /\ analysis[1].signal = "BUY")
    /\ Descending => (analysis # <<>> /\ analysis[1].signal = "SELL")

\* C5 witness: 26 ascending prices have been analysed as BUY.
C5_Witness ==
  /\ pc = "gate"
  /\ EthLen = MOVING_AVG_LONG
  /\ Ascending
  /\ analysis # <<>>
  /\ analysis[1].signal = "BUY"

\* The guard of the side a signal indicates, on the balances execute_trade read.
SideFunded(t) ==
  \/ t.signal = "BUY" /\ t.eur > MIN_EUR_TRADE
  \/ t.signal = "SELL" /\ t.eth > MIN_ETH_TRADE

\* C6: a buy is requested only on BUY with available EUR above MIN_EUR_TRADE,
\* a sell only on SELL with available ETH above MIN_ETH_TRADE, both as read by
\* execute_trade; in every other case no order is requested.
C6_OrdersOnlyWhenFunded ==
  /\ trade = <<>> => orders = <<>>
  /\ trade # <<>> =>
       /\ \A i \in 1..Len(orders) :
            /\ orders[i].signal = analysis[1].signal
            /\ orders[i].eur = trade[1].eur /\ orders[i].eth = trade[1].eth
            /\ orders[i].side = "buy" =>
                 (orders[i].signal = "BUY" /\ orders[i].eur > MIN_EUR_TRADE)
            /\ orders[i].side = "sell" =>
                 (orders[i].signal = "SELL" /\ orders[i].eth > MIN_ETH_TRADE)
       /\ ~SideFunded(trade[1]) => orders = <<>>

\* C6 witness: BUY with EUR at the minimum and ETH above its minimum: no order.
C6_Witness ==
  /\ trade # <<>>
  /\ trade[1].signal = "BUY"
  /\ trade[1].eur = MIN_EUR_TRADE
  /\ trade[1].eth > MIN_ETH_TRADE
  /\ orders = <<>>
  /\ pc = "report"

\* C7: the amount of a buy is TRADE_PERCENTAGE of the available EUR read in
\* the same execute_trade call, the size of a sell is TRADE_PERCENTAGE of the
\* available ETH read in that call; neither exceeds that available balance
\* (amounts are in tenths, PERCENT_UNIT to the balance unit).
C7_AmountIsFraction ==
  \A i \in 1..Len(orders) :
    LET o == orders[i]
        available == IF o.side = "buy" THEN trade[1].eur ELSE trade[1].eth
    IN /\ trade # <<>>
       /\ o.amount = available * TRADE_PERCENTAGE
       /\ o.amount <= available * PERCENT_UNIT

\* C7 witness: a buy and, in another cycle, a sell have been requested; here
\* the sell, for 0.9 of the 20 thousandths available.
C7_Witness ==
  /\ Len(orders) = 1
  /\ orders[1].side = "sell"
  /\ trade[1].eth = 2 * MIN_ETH_TRADE
  /\ orders[1].amount = 2 * MIN_ETH_TRADE * TRADE_PERCENTAGE

\* C8: place_market_order is requested at most once in a cycle, also when the
\* placement fails, and a new cycle starts with no order pending.
C8_AtMostOneOrder ==
  /\ Len(orders) <= 1
  /\ pc \in {"fetch", "sleep"} => (orders = <<>> /\ trade = <<>>)

\* C8 witness: a cycle has ended after its only placement failed.
C8_Witness ==
  /\ pc = "events"
  /\ Len(orders) = 1
  /\ ~orders[1].ok

\* The signal of the cycle: the analysis made, or the one line 336 would make.
CycleSignal ==
  LET a == IF analysis # <<>> THEN analysis ELSE AnalyzeMarket(price_history)
  IN IF a = <<>> THEN "None" ELSE a[1].signal

\* Every balance read of the cycle shows more than the minimum of the currency.
AllReadsAbove(cur) ==
  /\ balances # <<>>
  /\ IF cur = "EUR" THEN balances[1].EUR.available > MIN_EUR_TRADE
                    ELSE balances[1].ETH.available > MIN_ETH_TRADE
  /\ gate # <<>> => IF cur = "EUR" THEN gate[1].eur > MIN_EUR_TRADE
                                   ELSE gate[1].eth > MIN_ETH_TRADE
  /\ trade # <<>> => IF cur = "EUR" THEN trade[1].eur > MIN_EUR_TRADE
                                    ELSE trade[1].eth > MIN_ETH_TRADE

\* C9: a cycle without a failed price or balance call, with at least
\* MOVING_AVG_LONG samples and a funded BUY or SELL signal, requests a market
\* order, on Windows and elsewhere.
C9_FundedSignalOrders ==
  ( /\ pc = "events"
    /\ err \notin {"price", "balance"}
    /\ Len(recorded[ETH_SYMBOL]) >= MOVING_AVG_LONG
    /\ \/ CycleSignal = "BUY" /\ AllReadsAbove("EUR")
       \/ CycleSignal = "SELL" /\ AllReadsAbove("ETH") )
  => orders # <<>>

\* C9 on Windows alone.
C9_OnWindows == platform = "Windows" => C9_FundedSignalOrders

\* C10: a failed place_market_order is caught in execute_trade: the history and
\* total_profit_loss are as before the attempt, no exception reaches the
\* cycle, execute_trade returns None and the cycle goes on to its report.
C10_FailedOrderIsNoTrade ==
  [][ ( /\ pc = "execute"
        /\ Len(orders') > Len(orders)
        /\ ~orders'[Len(orders')].ok )
      => /\ price_history' = price_history
         /\ total_profit_loss' = total_profit_loss
         /\ err' = ""
         /\ pc' = "report"
         /\ trade'[1].result = "None"
         /\ ~trade'[1].placed ]_vars

\* C10 witness: a cycle whose placement failed has reported and returned
\* without an error.
C10_Witness ==
  /\ pc = "events"
  /\ Len(orders) = 1
  /\ ~orders[1].ok
  /\ err = ""
  /\ reported = 1

FetchErrors == {"price", "balance"}

\* C11: a failed price or balance retrieval (line 321, 324, can_trade or line
\* 256) is caught at line 364: the cycle ends with no further order, and main
\* goes on to the sleep and the next cycle (or is stopped by the operator).
C11_FetchErrorEndsCycle ==
  [][ /\ (err = "" /\ err' \in FetchErrors) => (pc' = "events" /\ orders' = orders)
      /\ (pc = "events" /\ err \in FetchErrors) => pc' \in {"sleep", "stopped"}
    ]_vars

\* C11 while the window has not been closed.
C11_WhileWindowOpen ==
  [][ display # "closed" =>
        /\ (err = "" /\ err' \in FetchErrors) => (pc' = "events" /\ orders' = orders)
        /\ (pc = "events" /\ err \in FetchErrors) => pc' \in {"sleep", "stopped"}
    ]_vars

\* C12: once entered, the loop is left only by the operator's stop: after any
\* other error it goes on to another cycle.
C12_LoopLeftOnlyByStop ==
  [][ InLoop => (pc' \in {"stopped"} \/ pc' \in {"fetch", "balances", "window",
                  "analyze", "gate", "execute", "report", "events", "sleep"}) ]_vars

\* C13: execute_trade is called only after get_current_prices, an analysis
\* that is not None and a can_trade that returned true; can_trade is true iff
\* available EUR > MIN_EUR_TRADE or available ETH > MIN_ETH_TRADE; without
\* data or with a false gate no order is requested.
C13_StepsInOrder ==
  /\ (analysis # <<>> \/ pc \in {"analyze", "gate", "execute", "report"})
       => current_prices # <<>>
  /\ gate # <<>> =>
       /\ analysis # <<>>
       /\ gate[1].result <=>
            (gate[1].eur > MIN_EUR_TRADE \/ gate[1].eth > MIN_ETH_TRADE)
  /\ (pc = "execute" \/ trade # <<>>) =>
       (analysis # <<>> /\ gate # <<>> /\ gate[1].result)
  /\ (pc \in {"report", "events"} /\ (analysis = <<>> \/ gate = <<>> \/ ~gate[1].result))
       => (trade = <<>> /\ orders = <<>>)

\* C13 witness: a cycle with a signal whose gate was false (only one of the
\* two balances would have had to be above its minimum) has ended with no
\* order.
C13_Witness ==
  /\ pc = "events"
  /\ analysis # <<>>
  /\ analysis[1].signal = "BUY"
  /\ gate # <<>>
  /\ ~gate[1].result
  /\ orders = <<>>

\* C14: a cycle whose price and balance retrievals succeed delivers exactly
\* one complete snapshot, whatever the analysis and the trade.
C14_OneSnapshotPerCycle ==
  (pc = "events" /\ err \notin FetchErrors) => reported = 1

\* C14 on Windows alone.
C14_OnWindows == platform = "Windows" => C14_OneSnapshotPerCycle

\* C14 for cycles on Windows with an open window and a signal.
C14_WithSignal ==
  (pc = "events" /\ err \notin FetchErrors /\ platform = "Windows"
     /\ display = "open" /\ analysis # <<>>) => reported = 1

\* C15: only the cycle's fetch changes the price history, by one sample per
\* pair; the gate and execute_trade leave it unchanged.
C15_OnlyFetchRecords ==
  [][ /\ (pc = "fetch" /\ pc' = "balances") =>
           \A p \in Pairs : Len(recorded'[p]) = Len(recorded[p]) + 1
      /\ pc # "fetch" => price_history' = price_history ]_vars

C17_NoCredentialsNoLoop ==
  ~creds =>
    /\ pc \in {"main", "crashed"}
    /\ now = 0
    /\ \A p \in Pairs : recorded[p] = <<>> /\ price_history[p] = <<>>
    /\ current_prices = <<>> /\ balances = <<>> /\ gate = <<>>
    /\ trade = <<>> /\ orders = <<>>

\* C17 witness: the constructor has raised, on Windows after the window was
\* opened.
C17_Witness ==
  /\ ~creds
  /\ pc = "crashed"
  /\ display = "open"

\* C18: a placed buy order lowers total_profit_loss by the EUR committed, as
\* a completed sell raises it by the EUR received.  total_profit_loss is in
\* ten-thousandths of a EUR, a buy amount in tenths of a EUR.
C18_BuyIsBooked ==
  [][ (pc = "execute" /\ Len(orders') > Len(orders)) =>
        LET o == orders'[Len(orders')] IN
        /\ (o.side = "buy" /\ o.ok) =>
             total_profit_loss' = total_profit_loss - o.amount * 1000
        /\ (o.side = "sell" /\ trade'[1].result = "order") =>
             total_profit_loss' = total_profit_loss + o.amount * market'.price
    ]_vars

\* C18 for the sell side alone.
C18_SellIsBooked ==
  [][ (pc = "execute" /\ Len(orders') > Len(orders)) =>
        LET o == orders'[Len(orders')] IN
        (o.side = "sell" /\ trade'[1].result = "order") =>
           total_profit_loss' = total_profit_loss + o.amount * market'.price
    ]_vars

\* C19: execute_trade returns the order exactly when a market order was
\* placed during the call, also when something fails after the placement.
C19_OrderReturnedIffPlaced ==
  trade # <<>> => ((trade[1].result = "order") <=> trade[1].placed)

\* C20: once the ETH-EUR history holds MOVING_AVG_LONG samples it never holds
\* fewer, and analyze_market no longer returns None.
C20_EnoughDataForGood ==
  /\ [][ EthLen >= MOVING_AVG_LONG =>
           Len(price_history'[ETH_SYMBOL]) >= MOVING_AVG_LONG ]_vars
  /\ []( (pc = "gate" /\ Len(recorded[ETH_SYMBOL]) >= MOVING_AVG_LONG)
            => analysis # <<>> )

\* C20 witness: an analysis with a signal after samples have been evicted.
C20_Witness ==
  /\ pc = "gate"
  /\ Len(recorded[ETH_SYMBOL]) > max_history
  /\ EthLen = max_history
  /\ analysis # <<>>

====
